---- MODULE Spec2Model ----
(***************************************************************************)
(* Model of src/Testapp/app.py: the swim-data web API.                     *)
(*                                                                         *)
(* Texts (names, time texts, request parameters) are sequences of          *)
(* one-character strings, so that case folding, splitting on ":" and       *)
(* number parsing are computed character by character.  Durations are      *)
(* integers in milliseconds; seconds and speeds are exact rationals        *)
(* <<numerator, denominator>> in lowest terms (the program uses float64).  *)
(***************************************************************************)
EXTENDS Integers, Sequences, FiniteSets, TLC

VARIABLES
    csv,          \* the rows of SwimDataTop50.csv, in file order
    phase,        \* "start" (before import), "serving", "failed" (import raised)
    df,           \* the module-level DataFrame: a sequence of rows, each with its index label
    loadError,    \* the exception that aborted the import, if any
    request,      \* the last request handled: [endpoint, args]
    response,     \* the response to it
    filtered_df,  \* plot_rational_function_for_swimmer's local filtered_df when it returned
    divisor       \* plot_rational_function_for_swimmer's local divisor when it returned

vars == <<csv, phase, df, loadError, request, response, filtered_df, divisor>>

-----------------------------------------------------------------------------
(* Bounds of the enumerated inputs.                                        *)

MaxDupRows == 3      \* longest raw table of the duplicate / letter-case family
MaxFitRows == 3      \* longest raw table of the single-group family
MaxPerGroup == 3     \* largest group size of the several-groups family

-----------------------------------------------------------------------------
(* Texts.                                                                  *)

\* str.lower() on one character
LowerChar(c) ==
    CASE c = "D" -> "d" [] c = "O" -> "o" [] c = "J" -> "j" [] c = "A" -> "a"
      [] OTHER -> c

\* str.upper() on one character
UpperChar(c) ==
    CASE c = "d" -> "D" [] c = "o" -> "O" [] c = "j" -> "J" [] c = "a" -> "A"
      [] OTHER -> c

lower(s) == [i \in 1..Len(s) |-> LowerChar(s[i])]

upper(s) == [i \in 1..Len(s) |-> UpperChar(s[i])]

Digits == {"0", "1", "2", "3", "4", "5", "6", "7", "8", "9"}

DigitVal(c) ==
    CASE c = "0" -> 0 [] c = "1" -> 1 [] c = "2" -> 2 [] c = "3" -> 3 [] c = "4" -> 4
      [] c = "5" -> 5 [] c = "6" -> 6 [] c = "7" -> 7 [] c = "8" -> 8 [] c = "9" -> 9

IsNumber(s) == Len(s) > 0 /\ \A i \in 1..Len(s) : s[i] \in Digits

\* int(s) for a text of decimal digits
RECURSIVE int(_)
int(s) == IF Len(s) = 0 THEN 0
          ELSE 10 * int(SubSeq(s, 1, Len(s) - 1)) + DigitVal(s[Len(s)])

\* s.split(sep): the segments between the separators, at least one
RECURSIVE split(_, _)
split(s, sep) ==
    IF s = <<>> THEN << <<>> >>
    ELSE LET rest == split(Tail(s), sep)
         IN  IF Head(s) = sep THEN << <<>> >> \o rest
             ELSE << <<Head(s)>> \o Head(rest) >> \o Tail(rest)

-----------------------------------------------------------------------------
(* Numbers.                                                                *)

RECURSIVE Gcd(_, _)
Gcd(a, b) == IF b = 0 THEN a ELSE Gcd(b, a % b)

\* the rational n/d in lowest terms, d > 0
Rat(n, d) == LET g == Gcd(n, d) IN <<n \div g, d \div g>>

\* float division a / b, b nonzero
RatDiv(a, b) == Rat(a[1] * b[2], a[2] * b[1])

Abs(n) == IF n < 0 THEN -n ELSE n

-----------------------------------------------------------------------------
(* Time Parser.                                                            *)

Pow10(k) == CASE k = 0 -> 1 [] k = 1 -> 10 [] k = 2 -> 100 [] k = 3 -> 1000

\* pd.to_timedelta(text) for "hh:mm:ss" with an optional fraction of up to three
\* digits on the seconds; any other shape is pandas' own ValueError.
to_timedelta(text) ==
    LET segs == split(text, ":")
        secs == split(segs[3], ".")
        wellFormed ==
            /\ Len(segs) = 3
            /\ IsNumber(segs[1]) /\ IsNumber(segs[2])
            /\ Len(secs) \in {1, 2}
            /\ IsNumber(secs[1])
            /\ Len(secs) = 2 => (IsNumber(secs[2]) /\ Len(secs[2]) <= 3)
        frac == IF Len(secs) = 2 THEN int(secs[2]) * Pow10(3 - Len(secs[2])) ELSE 0
    IN  IF wellFormed
        THEN [ok |-> TRUE,
              value |-> (int(segs[1]) * 3600 + int(segs[2]) * 60 + int(secs[1])) * 1000
                        + frac]
        ELSE [ok |-> FALSE, error |-> "ValueError", message |-> "pandas", text |-> text]

format_map(n) ==
    CASE n = 1 -> <<"0", "0", ":", "0", "0", ":">>
      [] n = 2 -> <<"0", "0", ":">>
      [] n = 3 -> <<>>

\* a mis-keyed format table: a lone segment is filled in as the minutes
parse_custom_time_minutes(time_str) ==
    LET time_parts_count == Len(split(time_str, ":"))
    IN  IF time_parts_count = 1
        THEN to_timedelta(<<"0", "0", ":">> \o time_str \o <<":", "0", "0">>)
        ELSE IF time_parts_count \in {2, 3}
        THEN to_timedelta(format_map(time_parts_count) \o time_str)
        ELSE [ok |-> FALSE, error |-> "ValueError",
              message |-> "Invalid time format: ", text |-> time_str]

parse_custom_time(time_str) ==
    LET time_parts_count == Len(split(time_str, ":"))
    IN  IF time_parts_count \in {1, 2, 3}
        THEN to_timedelta(format_map(time_parts_count) \o time_str)
        ELSE [ok |-> FALSE, error |-> "ValueError",
              message |-> "Invalid time format: ", text |-> time_str]

-----------------------------------------------------------------------------
(* Dataset Preparer: the module-level statements of app.py.                *)

\* rows[mask]: the rows, in order, whose mask entry is TRUE
RECURSIVE take(_, _, _)
take(rows, mask, i) ==
    IF i > Len(rows) THEN <<>>
    ELSE (IF mask[i] THEN <<rows[i]>> ELSE <<>>) \o take(rows, mask, i + 1)

\* subset=['surname', 'firstname', 'distance', 'technique', 'track length']
duplicate_subset(row) ==
    <<row.surname, row.firstname, row.distance, row.technique, row.track_length>>

\* keep='last' instead of keep='first'
drop_duplicates_keep_last(rows) ==
    take(rows,
         [i \in 1..Len(rows) |->
            \A j \in (i + 1)..Len(rows) : duplicate_subset(rows[j]) # duplicate_subset(rows[i])],
         1)

\* the deduplication left out
drop_duplicates_omitted(rows) == rows

\* DataFrame.drop_duplicates(subset=..., keep='first')
drop_duplicates(rows) ==
    take(rows,
         [i \in 1..Len(rows) |->
            \A j \in 1..(i - 1) : duplicate_subset(rows[j]) # duplicate_subset(rows[i])],
         1)

\* df['time'].apply(parse_custom_time): one result per row, in row order
apply_parse_custom_time(rows) == [i \in 1..Len(rows) |-> parse_custom_time(rows[i].time)]

\* pd.read_csv and the derived columns; row i of the file gets index label i - 1
derive_columns(rows, times) ==
    [i \in 1..Len(rows) |->
        [index        |-> i - 1,
         surname      |-> rows[i].surname,
         firstname    |-> lower(rows[i].firstname),
         track_length |-> rows[i].track_length,
         technique    |-> rows[i].technique,
         distance     |-> rows[i].distance,
         time         |-> times[i].value,
         time_seconds |-> Rat(times[i].value, 1000),
         speed        |-> RatDiv(Rat(rows[i].distance, 1), Rat(times[i].value, 1000))]]

\* the table the import leaves in df when no time text is rejected
prepare(rows) == drop_duplicates(derive_columns(rows, apply_parse_custom_time(rows)))

NoError == [ok |-> TRUE]

NoRequest == [endpoint |-> "none"]

NoResponse == [status |-> 0]

NoDivisor == [set |-> FALSE]

\* import succeeds: every time text parses
Load ==
    /\ phase = "start"
    /\ \A i \in 1..Len(csv) : parse_custom_time(csv[i].time).ok
    /\ df' = prepare(csv)
    /\ phase' = "serving"
    /\ UNCHANGED <<csv, loadError, request, response, filtered_df, divisor>>

\* import aborts with the exception of the first time text that does not parse
LoadFail ==
    /\ phase = "start"
    /\ \E i \in 1..Len(csv) :
          /\ ~parse_custom_time(csv[i].time).ok
          /\ \A j \in 1..(i - 1) : parse_custom_time(csv[j].time).ok
          /\ loadError' = parse_custom_time(csv[i].time)
    /\ phase' = "failed"
    /\ UNCHANGED <<csv, df, request, response, filtered_df, divisor>>

-----------------------------------------------------------------------------
(* Constants of app.py.                                                    *)

DISTANCE_200 == 200

TRACK_LENGTHS == { <<"2", "5">>, <<"5", "0">> }

TECHNIQUES == { <<"F">>, <<"R">>, <<"B">>, <<"S">>, <<"L">> }

TECHNIQUE_MAP(t) ==
    CASE t = <<"F">> -> "Freistil"
      [] t = <<"R">> -> "Rücken"
      [] t = <<"B">> -> "Brust"
      [] t = <<"S">> -> "Schmetterling"
      [] t = <<"L">> -> "Lagen"

-----------------------------------------------------------------------------
(* Request arguments: a function from the names of the parameters that are *)
(* present in the URL to their texts.                                      *)

\* request.args.get(key, None) is None
is_none(args, key) == key \notin DOMAIN args

\* "not value" for a value that is None or a text
falsy(args, key) == is_none(args, key) \/ args[key] = <<>>

-----------------------------------------------------------------------------
(* DataFrame operations used by the handlers.  A frame is its rows plus    *)
(* whether it owns its data (is_copy) or shares it with df.                *)

\* boolean indexing that hands out a view on the indexed table
getitem_bool_view(rows, mask) == [rows |-> take(rows, mask, 1), is_copy |-> FALSE]

\* table[mask]: boolean indexing returns a new frame with its own data
getitem_bool(rows, mask) == [rows |-> take(rows, mask, 1), is_copy |-> TRUE]

\* frame.loc[:, 'speed'] = values, on the frame itself
loc_set_speed(rows, values) == [i \in 1..Len(rows) |-> [rows[i] EXCEPT !.speed = values[i]]]

\* what that assignment leaves in the table the frame was taken from
parent_after_loc_set_speed(table, frame, values) ==
    IF frame.is_copy THEN table
    ELSE [i \in 1..Len(table) |->
            IF \E k \in 1..Len(frame.rows) : frame.rows[k].index = table[i].index
            THEN LET k == CHOOSE k \in 1..Len(frame.rows) :
                              frame.rows[k].index = table[i].index
                 IN  [table[i] EXCEPT !.speed = values[k]]
            ELSE table[i]]

\* Series.argsort(): the positions that sort the values ascending.  The sort is
\* numpy's default, which is not stable: equal values come in either order.
argsort(values) ==
    LET n == Len(values)
    IN  {p \in [1..n -> 1..n] :
            /\ \A i, j \in 1..n : i # j => p[i] # p[j]
            /\ \A i \in 1..(n - 1) : values[p[i]] <= values[p[i + 1]]}

\* Series.sort_values() of a Series of distinct positions 1..n carried by the
\* labels: the labels, ordered by the position they carry
sort_values_index(labels, positions) ==
    [k \in 1..Len(labels) |-> labels[CHOOSE i \in 1..Len(labels) : positions[i] = k]]

\* frame.loc[label, 'speed'].values[0]
loc_speed(rows, label) == rows[CHOOSE i \in 1..Len(rows) : rows[i].index = label].speed

\* the speed of the first row of the frame, whatever its distance
speed_of_first_row(rows, distance) == rows[1].speed

\* frame[frame['distance'] == distance]['speed'].values[0]
speed_at_distance(rows, distance) ==
    take(rows, [i \in 1..Len(rows) |-> rows[i].distance = distance], 1)[1].speed

\* the divisors lines 123-129 can compute for the frame
divisors(rows) ==
    IF DISTANCE_200 \in {rows[i].distance : i \in 1..Len(rows)}
    THEN {speed_at_distance(rows, DISTANCE_200)}
    ELSE LET labels == [i \in 1..Len(rows) |-> rows[i].index]
             gaps == [i \in 1..Len(rows) |-> Abs(rows[i].distance - 200)]
         IN  {loc_speed(rows, sort_values_index(labels, positions)[1]) :
                 positions \in argsort(gaps)}

\* curve_fit with method="dogbox": the parameters, or RuntimeError when the
\* solver gives up.  The numerical outcome is not computed here.
curve_fit_outcomes == {"params", "RuntimeError"}

\* np.linspace(0, 2000, 200)
x_range == [start |-> 0, stop |-> 2000, num |-> 200]

-----------------------------------------------------------------------------
(* Responses.  A handler's outcome is the response it returns, the locals  *)
(* of interest when it returned, and the module-level df it leaves.        *)

NoFrame == <<>>

Outcome(resp, frame_rows, div, table) ==
    [response |-> resp, filtered_df |-> frame_rows, divisor |-> div, df |-> table]

\* return text, 400
bad_request(body) == [status |-> 400, body |-> body]

\* an exception that leaves the handler: Flask answers 500
unhandled(exception) == [status |-> 500, exception |-> exception]

\* a threshold one too low
too_few_below_two(n) == n < 2

\* len(filtered_df) < 3
too_few(n) == n < 3

-----------------------------------------------------------------------------
(* /requestData                                                            *)

\* lines 135-156: the fit and the JSON body, for each outcome of the solver
fit_and_respond(frame_rows, div, table) ==
    {Outcome(IF fit = "RuntimeError" THEN unhandled("RuntimeError")
             ELSE [status |-> 200,
                   body |-> [pred_values |-> [x |-> x_range, y |-> fit],
                             mes_values |-> [i \in 1..Len(frame_rows) |->
                                               [x |-> frame_rows[i].distance,
                                                y |-> frame_rows[i].speed]]]],
             frame_rows, div, table) : fit \in curve_fit_outcomes}

\* lines 121-132, then the fit: one outcome per divisor the selection can yield
normalize_and_fit(frame, table) ==
    UNION {LET values == [i \in 1..Len(frame.rows) |-> RatDiv(frame.rows[i].speed, d)]
           IN  fit_and_respond(loc_set_speed(frame.rows, values),
                               [set |-> TRUE, value |-> d],
                               parent_after_loc_set_speed(table, frame, values))
           : d \in divisors(frame.rows)}

\* the set of outcomes of one call of the handler on the table
plot_rational_function_for_swimmer(table, args) ==
    IF is_none(args, "firstname") \/ is_none(args, "lastname")
    THEN {Outcome(unhandled("AttributeError"), NoFrame, NoDivisor, table)}
    ELSE
    LET firstname == lower(args["firstname"])
        lastname == upper(args["lastname"])
        isAbsolute == ~falsy(args, "absolute")
    IN  IF \/ firstname = <<>> \/ lastname = <<>>
           \/ falsy(args, "track_length") \/ falsy(args, "technique")
        THEN {Outcome(bad_request([text |-> "Invalid request. Please provide all parameters."]),
                      NoFrame, NoDivisor, table)}
        ELSE IF args["technique"] \notin TECHNIQUES
        THEN {Outcome(bad_request(
                        [text |-> "Invalid request. Technique must be one of F, R, B, S, L."]),
                      NoFrame, NoDivisor, table)}
        ELSE IF args["track_length"] \notin TRACK_LENGTHS
        THEN {Outcome(bad_request(
                        [text |-> "Invalid request. Track length must be one of 25, 50."]),
                      NoFrame, NoDivisor, table)}
        ELSE
        LET technique == TECHNIQUE_MAP(args["technique"])
            frame == getitem_bool(table,
                        [i \in 1..Len(table) |->
                            /\ table[i].firstname = firstname
                            /\ table[i].surname = lastname
                            /\ table[i].track_length = int(args["track_length"])
                            /\ table[i].technique = technique])
        IN  IF Len(frame.rows) = 0
            THEN {Outcome(bad_request([text |-> "No data found for",
                                       firstname |-> firstname, lastname |-> lastname]),
                          frame.rows, NoDivisor, table)}
            ELSE IF too_few(Len(frame.rows))
            THEN {Outcome(bad_request([text |-> "Not enough data found for",
                                       firstname |-> firstname, lastname |-> lastname,
                                       entrys |-> Len(frame.rows)]),
                          frame.rows, NoDivisor, table)}
            ELSE IF ~isAbsolute
            THEN normalize_and_fit(frame, table)
            ELSE fit_and_respond(frame.rows, NoDivisor, table)

-----------------------------------------------------------------------------
(* /swimmers                                                               *)

getAllSwimmers(table) ==
    LET uniquedf == take(table,
                         [i \in 1..Len(table) |->
                            \A j \in 1..(i - 1) :
                               <<table[j].firstname, table[j].surname>>
                                  # <<table[i].firstname, table[i].surname>>],
                         1)
    IN  [status |-> 200,
         body |-> [i \in 1..Len(uniquedf) |->
                     uniquedf[i].firstname \o <<" ">> \o uniquedf[i].surname]]

-----------------------------------------------------------------------------
(* /possibleOptions                                                        *)

\* toCheck: the rows of the reset_index() frame, one per kept group
checker(toCheck, trackLength, technique) ==
    /\ technique \in {g.technique : g \in toCheck}
    /\ trackLength \in {g.track_length : g \in toCheck}

possibleOptions(table, args) ==
    IF is_none(args, "firstname") \/ is_none(args, "lastname")
    THEN unhandled("AttributeError")
    ELSE
    LET firstname == lower(args["firstname"])
        lastname == upper(args["lastname"])
    IN  IF firstname = <<>> \/ lastname = <<>>
        THEN bad_request([text |-> "Invalid request. Please provide all parameters."])
        ELSE
        LET rows == getitem_bool(table,
                        [i \in 1..Len(table) |->
                            table[i].firstname = firstname /\ table[i].surname = lastname]).rows
            key(r) == [surname |-> r.surname, firstname |-> r.firstname,
                       track_length |-> r.track_length, technique |-> r.technique]
            size(k) == Cardinality({i \in 1..Len(rows) : key(rows[i]) = k})
            valid == {k \in {key(rows[i]) : i \in 1..Len(rows)} : size(k) > 2}
        IN  [status |-> 200,
             body |-> ("S-50" :> checker(valid, 50, "Schmetterling")
                    @@ "R-50" :> checker(valid, 50, "Rücken")
                    @@ "B-50" :> checker(valid, 50, "Brust")
                    @@ "F-50" :> checker(valid, 50, "Freistil")
                    @@ "L-50" :> checker(valid, 50, "Lagen")
                    @@ "S-25" :> checker(valid, 25, "Schmetterling")
                    @@ "R-25" :> checker(valid, 25, "Rücken")
                    @@ "B-25" :> checker(valid, 25, "Brust")
                    @@ "F-25" :> checker(valid, 25, "Freistil")
                    @@ "L-25" :> checker(valid, 25, "Lagen"))]

-----------------------------------------------------------------------------
(* The enumerated source files.                                            *)

Row(sn, fn, tl, te, d, t) ==
    [surname |-> sn, firstname |-> fn, track_length |-> tl, technique |-> te,
     distance |-> d, time |-> t]

\* a time text for each distance: 28.3 s, 1:00.1, 2:05.0, 3:20, 0:05:00
TimeFor(d) ==
    CASE d = 50  -> <<"2", "8", ".", "3">>
      [] d = 100 -> <<"1", ":", "0", "0", ".", "1">>
      [] d = 200 -> <<"2", ":", "0", "5", ".", "0">>
      [] d = 300 -> <<"3", ":", "2", "0">>
      [] d = 400 -> <<"0", ":", "0", "5", ":", "0", "0">>

Seqs(S, n) == UNION {[1..k -> S] : k \in 0..n}

\* duplicates and letter case: two spellings of one swimmer, a second time for the
\* same race, a surname stored in mixed case, and another swimmer
DupRows ==
    { Row(<<"D", "O">>, <<"j", "o">>, 25, "Freistil", 100, TimeFor(100)),
      Row(<<"D", "O">>, <<"J", "o">>, 25, "Freistil", 100, <<"1", ":", "0", "5">>),
      Row(<<"D", "O">>, <<"j", "o">>, 25, "Freistil", 200, TimeFor(200)),
      Row(<<"D", "o">>, <<"j", "o">>, 25, "Freistil", 100, TimeFor(100)),
      Row(<<"D", "O">>, <<"j", "a">>, 25, "Freistil", 100, TimeFor(100)) }

DupTables == Seqs(DupRows, MaxDupRows)

\* time texts of one to five segments
TimeTexts ==
    { <<"5">>, <<"2", "8", ".", "3">>,
      <<"1", ":", "0", "5">>, <<"1", ":", "0", "0", ".", "1">>,
      <<"1", ":", "0", "2", ":", "0", "3">>,
      <<"1", ":", "2", ":", "3", ":", "4">>,
      <<"0", ":", "1", ":", "2", ":", "3", ":", "4">> }

TimeTables ==
    { << Row(<<"D", "O">>, <<"j", "o">>, 25, "Freistil", 100, t) >> : t \in TimeTexts }
    \cup
    { << Row(<<"D", "O">>, <<"j", "o">>, 25, "Freistil", 100, t1),
         Row(<<"D", "O">>, <<"j", "o">>, 25, "Freistil", 200, t2) >> :
         t1 \in TimeTexts, t2 \in TimeTexts }

\* one group in every order of its distances
FitDistances == {50, 100, 200, 300, 400}

FitTables ==
    { [i \in 1..Len(ds) |->
         Row(<<"D", "O">>, <<"j", "o">>, 25, "Freistil", ds[i], TimeFor(ds[i]))] :
      ds \in {s \in Seqs(FitDistances, MaxFitRows) :
                 \A i, j \in 1..Len(s) : i # j => s[i] # s[j]} }

\* one swimmer with several groups of several sizes
GroupDistances == <<100, 50, 200, 400, 300>>

GroupRows(tl, te, n) ==
    [i \in 1..n |->
        Row(<<"D", "O">>, <<"j", "o">>, tl, te, GroupDistances[i], TimeFor(GroupDistances[i]))]

GroupSizes == {0, MaxPerGroup - 1, MaxPerGroup}

GroupTables ==
    { GroupRows(25, "Freistil", a) \o GroupRows(25, "Rücken", b)
        \o GroupRows(50, "Freistil", c) \o GroupRows(50, "Rücken", d) :
      a \in GroupSizes, b \in GroupSizes, c \in GroupSizes, d \in GroupSizes }

Init ==
    /\ csv \in DupTables \cup TimeTables \cup FitTables \cup GroupTables
    /\ phase = "start"
    /\ df = <<>>
    /\ loadError = NoError
    /\ request = NoRequest
    /\ response = NoResponse
    /\ filtered_df = NoFrame
    /\ divisor = NoDivisor

-----------------------------------------------------------------------------
(* The enumerated requests.                                                *)

Absent == <<"absent">>

\* the query string with the parameters that are not Absent
Args(p) == [k \in {n \in DOMAIN p : p[n] # Absent} |-> p[k]]

FitArgs(fn, ln, tl, te, ab) ==
    Args([firstname |-> fn, lastname |-> ln, track_length |-> tl, technique |-> te,
          absolute |-> ab])

WellFormedFitRequests ==
    { FitArgs(n[1], n[2], tl, te, ab) :
        n \in { << <<"J", "o">>, <<"d", "o">> >>, << <<"j", "o">>, <<"D", "O">> >> },
        tl \in TRACK_LENGTHS,
        te \in { <<"F">>, <<"R">> },
        ab \in { Absent, <<>>, <<"1">> } }

MalformedFitRequests ==
    { FitArgs(fn, <<"d", "o">>, <<"2", "5">>, <<"F">>, Absent) : fn \in {Absent, <<>>} }
    \cup
    { FitArgs(<<"j", "o">>, ln, <<"2", "5">>, <<"F">>, Absent) : ln \in {Absent, <<>>} }
    \cup
    { FitArgs(<<"j", "o">>, <<"d", "o">>, tl, <<"F">>, Absent) :
        tl \in {Absent, <<>>, <<"3", "0">>} }
    \cup
    { FitArgs(<<"j", "o">>, <<"d", "o">>, <<"2", "5">>, te, Absent) :
        te \in {Absent, <<>>, <<"X">>, <<"f">>} }

FitRequests == WellFormedFitRequests \cup MalformedFitRequests

OptionsRequests ==
    { Args([firstname |-> n[1], lastname |-> n[2]]) :
        n \in { << <<"J", "o">>, <<"d", "o">> >>, << <<"j", "o">>, <<"D", "O">> >>,
                << Absent, <<"d", "o">> >>, << <<>>, <<"d", "o">> >>,
                << <<"j", "o">>, Absent >>, << <<"j", "o">>, <<>> >> } }

-----------------------------------------------------------------------------
(* The request handlers, one action each.  A handler reads df and its own  *)
(* locals only, so requests served concurrently act one after another.     *)

requestData ==
    /\ phase = "serving"
    /\ \E args \in FitRequests :
          \E out \in plot_rational_function_for_swimmer(df, args) :
             /\ request' = [endpoint |-> "/requestData", args |-> args]
             /\ response' = out.response
             /\ filtered_df' = out.filtered_df
             /\ divisor' = out.divisor
             /\ df' = out.df
    /\ UNCHANGED <<csv, phase, loadError>>

swimmers ==
    /\ phase = "serving"
    /\ request' = [endpoint |-> "/swimmers", args |-> <<>>]
    /\ response' = getAllSwimmers(df)
    /\ filtered_df' = NoFrame
    /\ divisor' = NoDivisor
    /\ UNCHANGED <<csv, phase, df, loadError>>

possibleOptionsRequest ==
    /\ phase = "serving"
    /\ \E args \in OptionsRequests :
          /\ request' = [endpoint |-> "/possibleOptions", args |-> args]
          /\ response' = possibleOptions(df, args)
    /\ filtered_df' = NoFrame
    /\ divisor' = NoDivisor
    /\ UNCHANGED <<csv, phase, df, loadError>>

Next == Load \/ LoadFail \/ requestData \/ swimmers \/ possibleOptionsRequest

Spec == Init /\ [][Next]_vars

-----------------------------------------------------------------------------
(* Vocabulary of the properties.                                           *)

IsFitRequest == request.endpoint = "/requestData"

IsOptionsRequest == request.endpoint = "/possibleOptions"

\* the parameter is in the URL and not empty
Present(k) == k \in DOMAIN request.args /\ request.args[k] # <<>>

StrokeCodes == { <<"F">>, <<"R">>, <<"B">>, <<"S">>, <<"L">> }

PoolLengthTexts == { <<"2", "5">>, <<"5", "0">> }

PoolLength(text) == IF text = <<"2", "5">> THEN 25 ELSE 50

WellFormedFit ==
    /\ IsFitRequest
    /\ \A k \in {"firstname", "lastname", "track_length", "technique"} : Present(k)
    /\ request.args["technique"] \in StrokeCodes
    /\ request.args["track_length"] \in PoolLengthTexts

\* the request asks for normalized speeds
WantsNormalized == ~Present("absolute")

\* positions in df of the records of the requested group, names matched as the
\* handlers match them
GroupOf(fn, ln, tl, stroke) ==
    {i \in 1..Len(df) :
        /\ df[i].firstname = lower(fn) /\ df[i].surname = upper(ln)
        /\ df[i].track_length = tl /\ df[i].technique = stroke}

RequestedGroup ==
    GroupOf(request.args["firstname"], request.args["lastname"],
            PoolLength(request.args["track_length"]),
            TECHNIQUE_MAP(request.args["technique"]))

\* the df record with the index label
Labelled(label) == df[CHOOSE i \in 1..Len(df) : df[i].index = label]

\* the handler went on to normalization / curve fitting
ReachedFit == IsFitRequest /\ (response.status = 200 \/ response = unhandled("RuntimeError"))

OptionKey(code, tl) ==
    CASE code = <<"F">> -> IF tl = 25 THEN "F-25" ELSE "F-50"
      [] code = <<"R">> -> IF tl = 25 THEN "R-25" ELSE "R-50"
      [] code = <<"B">> -> IF tl = 25 THEN "B-25" ELSE "B-50"
      [] code = <<"S">> -> IF tl = 25 THEN "S-25" ELSE "S-50"
      [] code = <<"L">> -> IF tl = 25 THEN "L-25" ELSE "L-50"

-----------------------------------------------------------------------------
(* Properties.                                                             *)

\* C1: the options response has exactly the 10 keys "<StrokeCode>-<PoolLength>", and
\* a key is true if and only if the swimmer has at least 3 records in the table for
\* that exact (pool length, stroke) pair.
C1_OptionsArePerPair ==
    (IsOptionsRequest /\ response.status = 200) =>
        /\ DOMAIN response.body = {OptionKey(c, tl) : c \in StrokeCodes, tl \in {25, 50}}
        /\ \A c \in StrokeCodes, tl \in {25, 50} :
              response.body[OptionKey(c, tl)]
                 = (Cardinality(GroupOf(request.args["firstname"], request.args["lastname"],
                                        tl, TECHNIQUE_MAP(c))) >= 3)

\* the record of the group, given by its positions in df, that is closest to 200 m,
\* the shorter distance winning a tie
ClosestTo200(group) ==
    CHOOSE i \in group :
        \A j \in group :
            \/ Abs(df[i].distance - 200) < Abs(df[j].distance - 200)
            \/ /\ Abs(df[i].distance - 200) = Abs(df[j].distance - 200)
               /\ df[i].distance <= df[j].distance

\* C2: when a group without a record at 200 m is normalized, the divisor is the speed
\* of the record whose distance is closest to 200, ties broken by the smallest
\* distance, whatever the order of the records in the table.
C2_DivisorIsClosestTo200 ==
    (WellFormedFit /\ divisor.set /\ \A i \in RequestedGroup : df[i].distance # 200) =>
        divisor.value = df[ClosestTo200(RequestedGroup)].speed

\* C3: a well-formed fit request is answered "no data" (400) exactly when the group
\* is empty, "not enough data" (400) with the actual count exactly when it has 1 or 2
\* records, and reaches the fit only with at least 3 records, all of them emitted.
C3_FitErrorsByGroupSize ==
    WellFormedFit =>
        LET n == Cardinality(RequestedGroup)
        IN  /\ (n = 0) <=> (response.status = 400 /\ response.body.text = "No data found for")
            /\ (n \in {1, 2}) <=>
                  (response.status = 400 /\ response.body.text = "Not enough data found for")
            /\ (n \in {1, 2}) => response.body.entrys = n
            /\ (n >= 3) <=> ReachedFit
            /\ response.status = 200 => Len(response.body.mes_values) = n

\* C3 witness: a well-formed fit request on a group of 2 records got the "not enough
\* data" answer reporting 2.
C3_Witness ==
    /\ WellFormedFit
    /\ Cardinality(RequestedGroup) = 2
    /\ response.status = 400
    /\ response.body.text = "Not enough data found for"
    /\ response.body.entrys = 2

\* the request lacks a required parameter or carries one outside its enumeration
InvalidRequest ==
    \/ /\ IsOptionsRequest
       /\ ~(Present("firstname") /\ Present("lastname"))
    \/ /\ IsFitRequest
       /\ \/ \E k \in {"firstname", "lastname", "track_length", "technique"} : ~Present(k)
          \/ request.args["technique"] \notin StrokeCodes
          \/ request.args["track_length"] \notin PoolLengthTexts

\* C4: every fit or options request with a missing or empty required parameter, or
\* with a technique or track length outside its enumeration, ends in a 400 response
\* and never in an unhandled exception.
C4_InvalidRequestsGet400 == InvalidRequest => response.status = 400

\* the deduplication key of a source row, first name lower-cased
RawKey(r) == <<r.surname, lower(r.firstname), r.distance, r.technique, r.track_length>>

\* C5: the loaded table has no two records with the same (surname, first name,
\* distance, stroke, pool length); of the source rows sharing a key exactly the first
\* survives, and the survivors keep their source order and their data.
C5_FirstOfEachKeySurvives ==
    phase = "serving" =>
        /\ \A i, j \in 1..Len(df) :
              i # j => <<df[i].surname, df[i].firstname, df[i].distance, df[i].technique,
                         df[i].track_length>>
                       # <<df[j].surname, df[j].firstname, df[j].distance, df[j].technique,
                           df[j].track_length>>
        /\ {df[i].index : i \in 1..Len(df)}
              = {i - 1 : i \in {k \in 1..Len(csv) :
                                   \A j \in 1..(k - 1) : RawKey(csv[j]) # RawKey(csv[k])}}
        /\ \A i \in 1..(Len(df) - 1) : df[i].index < df[i + 1].index
        /\ \A i \in 1..Len(df) :
              LET raw == csv[df[i].index + 1]
              IN  /\ df[i].surname = raw.surname
                  /\ df[i].firstname = lower(raw.firstname)
                  /\ df[i].distance = raw.distance
                  /\ df[i].technique = raw.technique
                  /\ df[i].track_length = raw.track_length
                  /\ parse_custom_time(raw.time) = [ok |-> TRUE, value |-> df[i].time]

\* C5 witness: a source file in which a later row repeats an earlier one under another
\* spelling of the first name and with another time was loaded, and a row was dropped.
C5_Witness ==
    /\ phase = "serving"
    /\ Len(df) < Len(csv)
    /\ \E i, j \in 1..Len(csv) :
          /\ i < j
          /\ RawKey(csv[i]) = RawKey(csv[j])
          /\ csv[i].firstname # csv[j].firstname
          /\ csv[i].time # csv[j].time

\* C6: after load every record has an upper-case surname and a lower-case first name,
\* and a fit request returns all records of the swimmer whose names equal the
\* requested ones up to letter case.
C6_NamesMatchUpToCase ==
    /\ phase = "serving" =>
          \A i \in 1..Len(df) :
             df[i].surname = upper(df[i].surname) /\ df[i].firstname = lower(df[i].firstname)
    /\ WellFormedFit =>
          Len(filtered_df)
             = Cardinality({i \in 1..Len(df) :
                              /\ lower(df[i].firstname) = lower(request.args["firstname"])
                              /\ lower(df[i].surname) = lower(request.args["lastname"])
                              /\ df[i].track_length = PoolLength(request.args["track_length"])
                              /\ df[i].technique = TECHNIQUE_MAP(request.args["technique"])})

\* C7: once the table is loaded no request changes it: every record, its speed
\* included, keeps the value it had after load.
C7_TableIsReadOnly == [][phase = "serving" => df' = df]_vars

\* C7 witness: a fit request rescaled the speeds of its own filtered frame, which now
\* differ from the speeds of the same records in df.
C7_Witness ==
    /\ IsFitRequest
    /\ divisor.set
    /\ \E k \in 1..Len(filtered_df) :
          filtered_df[k].speed # Labelled(filtered_df[k].index).speed

\* the durations, in milliseconds, of the time texts of the source files
ExpectedMs(text) ==
    CASE text = <<"5">> -> 5000
      [] text = <<"2", "8", ".", "3">> -> 28300
      [] text = <<"1", ":", "0", "5">> -> 65000
      [] text = <<"1", ":", "0", "0", ".", "1">> -> 60100
      [] text = <<"2", ":", "0", "5", ".", "0">> -> 125000
      [] text = <<"3", ":", "2", "0">> -> 200000
      [] text = <<"1", ":", "0", "2", ":", "0", "3">> -> 3723000
      [] text = <<"0", ":", "0", "5", ":", "0", "0">> -> 300000

\* the number of colon-separated segments of a text
Segments(text) == Cardinality({k \in 1..Len(text) : text[k] = ":"}) + 1

\* C8: a time text of 1 segment is read as seconds ("5" is 5 s), of 2 as
\* minutes:seconds ("1:05" is 65 s), of 3 as hours:minutes:seconds ("1:02:03" is
\* 3723 s); a text of 4 or more segments fails the load with the invalid-time-format
\* error carrying that text.
C8_TimeBySegmentCount ==
    /\ phase = "serving" =>
          /\ \A i \in 1..Len(csv) : Segments(csv[i].time) \in {1, 2, 3}
          /\ \A i \in 1..Len(df) : df[i].time = ExpectedMs(csv[df[i].index + 1].time)
    /\ phase = "failed" =>
          \E i \in 1..Len(csv) :
             /\ Segments(csv[i].time) >= 4
             /\ \A j \in 1..(i - 1) : Segments(csv[j].time) \in {1, 2, 3}
             /\ loadError = [ok |-> FALSE, error |-> "ValueError",
                             message |-> "Invalid time format: ", text |-> csv[i].time]

\* C8 witness: the load failed on the four-segment text "1:2:3:4" that followed a
\* row whose text "1:02:03" had parsed.
C8_Witness ==
    /\ phase = "failed"
    /\ Len(csv) = 2
    /\ csv[1].time = <<"1", ":", "0", "2", ":", "0", "3">>
    /\ loadError.text = <<"1", ":", "2", ":", "3", ":", "4">>

\* C9: when a normalized group has a record at 200 m with speed S, the divisor is S,
\* that record is emitted with speed exactly 1 and every other record with its table
\* speed divided by S.
C9_NormalizedBySpeedAt200 ==
    (WellFormedFit /\ WantsNormalized /\ ReachedFit
        /\ \E i \in RequestedGroup : df[i].distance = 200) =>
        LET S == df[CHOOSE i \in RequestedGroup : df[i].distance = 200].speed
        IN  /\ divisor = [set |-> TRUE, value |-> S]
            /\ response.status = 200 =>
                  /\ Len(response.body.mes_values) = Cardinality(RequestedGroup)
                  /\ \A k \in 1..Len(response.body.mes_values) :
                        LET point == response.body.mes_values[k]
                            record == Labelled(filtered_df[k].index)
                        IN  /\ point.x = record.distance
                            /\ point.y = RatDiv(record.speed, S)
                            /\ point.x = 200 => point.y = <<1, 1>>

\* C9 witness: a normalized fit answered 200 for a group whose 200 m record is not
\* the first; that record is emitted with speed 1 and another one with another speed.
C9_Witness ==
    /\ WellFormedFit /\ WantsNormalized /\ response.status = 200
    /\ filtered_df[1].distance # 200
    /\ \E k \in 1..Len(response.body.mes_values) :
          response.body.mes_values[k] = [x |-> 200, y |-> <<1, 1>>]
    /\ \E k \in 1..Len(response.body.mes_values) :
          response.body.mes_values[k].y # <<1, 1>>

\* C10: the records of one (surname, first name, pool length, stroke) group have
\* pairwise distinct distances, so a fit request that passes the size check hands the
\* curve fit at least 3 distinct distances and at most one record at 200 m.
C10_GroupDistancesDistinct ==
    /\ phase = "serving" =>
          \A i, j \in 1..Len(df) :
             (/\ i # j
              /\ df[i].surname = df[j].surname /\ df[i].firstname = df[j].firstname
              /\ df[i].track_length = df[j].track_length
              /\ df[i].technique = df[j].technique)
             => df[i].distance # df[j].distance
    /\ ReachedFit =>
          /\ Cardinality({filtered_df[k].distance : k \in 1..Len(filtered_df)}) >= 3
          /\ Cardinality({k \in 1..Len(filtered_df) : filtered_df[k].distance = 200}) <= 1

\* C10 witness: the curve fit was reached with three records at three distances, one
\* of them 200 m.
C10_Witness ==
    /\ ReachedFit
    /\ Len(filtered_df) = 3
    /\ Cardinality({k \in 1..Len(filtered_df) : filtered_df[k].distance = 200}) = 1

====
